---- MODULE Spec2Model ----
(***************************************************************************)
(* Session authentication of the vidtube backend: login, refresh-token    *)
(* rotation, logout and the access-token check of protected routes, as     *)
(* wired by src/src/routes/user.routes.js to the handlers of               *)
(* src/src/controllers/user.controller.js; and the owner checks of the    *)
(* video handlers (src/src/controllers/video.controller.js) and of the     *)
(* comment handlers (src/unnamed/part_001).                                *)
(*                                                                         *)
(* Every handler is an async function: it runs without interruption up to  *)
(* each `await` of a database call, and other requests run between two     *)
(* awaits.  Each action below is one such uninterruptible piece, placed at *)
(* the instant its database call takes effect.                             *)
(***************************************************************************)
EXTENDS Integers, Sequences, FiniteSets, TLC

\* ------------------------------------------------------------------ bounds
MaxReq      == 3   \* requests handled in one behaviour
MaxLoginReq == 2   \* requests handled in one behaviour of SpecLogin
MaxRefreshReq == 2 \* requests handled in one behaviour of SpecRefresh
MaxContentReq == 2 \* requests handled in one behaviour of SpecContent
MaxViewerReq == 3  \* requests handled in one behaviour of SpecViewer
MaxRegisterReq == 2 \* requests handled in one behaviour of SpecRegister

\* ----------------------------------------------------------- configuration
AccessLife  == 1                \* ACCESS_TOKEN_EXPIRY, in clock ticks
RefreshLife == 2                \* REFRESH_TOKEN_EXPIRY, in clock ticks
MaxTime     == RefreshLife      \* the clock runs until the first refresh token expires

\* ------------------------------------------------------- principal records
Principals == {"p1", "p2"}          \* ids that have a record in the store
NoRecord   == "p0"                  \* an id without a record
usernameOf == [p \in Principals |-> IF p = "p1" THEN "alice" ELSE "bob"]
emailOf    == [p \in Principals |-> IF p = "p1" THEN "a@x" ELSE "b@x"]   \* at registration
passwordOf == [p \in Principals |-> IF p = "p1" THEN "pwA" ELSE "pwB"]   \* at registration

Absent  == "absent"                 \* undefined / empty request field
NoUser  == "none"

\* ------------------------------------------------------------------ tokens
NoToken == [kind |-> "none", sub |-> NoUser, exp |-> 0, n |-> 0, signed |-> FALSE]
Null    == [kind |-> "null", sub |-> NoUser, exp |-> 0, n |-> 0, signed |-> FALSE]

\* user.generateAccessToken(): claims subject, expiry, kind; n tells two
\* issuances apart.
generateAccessToken(user, t, n) ==
  [kind |-> "access", sub |-> user, exp |-> t + AccessLife, n |-> n, signed |-> TRUE]

\* user.generateRefreshToken()
generateRefreshToken(user, t, n) ==
  [kind |-> "refresh", sub |-> user, exp |-> t + RefreshLife, n |-> n, signed |-> TRUE]

\* jwt.verify(token, secret): the signature is made with the secret of the
\* token's kind, and the token is not past its expiry.
jwtVerify(tok, kind, t) == tok.signed /\ tok.kind = kind /\ t < tok.exp

\* A copy of a token whose signature was altered.
Forge(tok) == [tok EXCEPT !.signed = FALSE]

\* --------------------------------------------------------------- variables
VARIABLES
  store,       \* store[p]: the refreshToken field of principal p, or Null
  reqs,        \* the requests received so far, in order of arrival
  now,         \* the clock
  serial,      \* number of token pairs issued
  revoked,     \* revoked[p]: a logout of p completed and no login of p began since
  lastIssued,  \* lastIssued[p]: the refresh token last returned to a caller for p
  deadRT,      \* refresh tokens that had been returned when a logout of their subject wrote
  profile,     \* profile[p]: the other fields of the record of principal p
  videos,      \* videos[v]: the video document with id v, or NoVideo
  comments,    \* comments[c]: the comment document with id c, or NoComment
  creqs,       \* the requests to the video and comment handlers, in order of arrival
  users,       \* the user records created by registerUser, in order of creation
  subscriptions \* subscriptions[k]: the subscription document with id k

contentVars == <<videos, comments, creqs, subscriptions>>
authVars == <<store, reqs, now, serial, revoked, lastIssued, deadRT, profile, users>>
vars == <<store, reqs, now, serial, revoked, lastIssued, deadRT, profile, videos, comments, creqs,
          users, subscriptions>>

\* user.isPasswordCorrect(password): compares with the stored hash.
isPasswordCorrect(user, password) == password = profile[user].password

\* ---------------------------------------------------------------- responses
\* const options = { httpOnly: true, secure: true, sameSite: "none" }
NoOptions     == [httpOnly |-> FALSE, secure |-> FALSE, sameSite |-> Absent]
CookieOptions == [httpOnly |-> TRUE, secure |-> TRUE, sameSite |-> "none"]

NoResp == [status |-> 0, message |-> "", cookieAT |-> NoToken, cookieRT |-> NoToken,
           bodyAT |-> NoToken, bodyRT |-> NoToken, cleared |-> {}, options |-> NoOptions]

\* An error path that also clears both cookies, as a handler does that ends
\* the session of a caller whose token it rejects.
ApiError_ClearsCookies(status, message) ==
  [NoResp EXCEPT !.status = status, !.message = message,
                 !.cleared = {"accessToken", "refreshToken"}, !.options = CookieOptions]

\* throw new ApiError(status, message)
ApiError(status, message) == [NoResp EXCEPT !.status = status, !.message = message]

\* res.status(200).cookie("accessToken", ..).cookie("refreshToken", ..)
\*    .json(new ApiResponse(200, { accessToken, refreshToken }, message))
TokenResp(message, at, rt) ==
  [NoResp EXCEPT !.status = 200, !.message = message, !.cookieAT = at, !.cookieRT = rt,
                 !.bodyAT = at, !.bodyRT = rt, !.options = CookieOptions]

\* res.status(200).clearCookie("accessToken", ..).clearCookie("refreshToken", ..).json(..)
ClearResp(message) ==
  [NoResp EXCEPT !.status = 200, !.message = message,
                 !.cleared = {"accessToken", "refreshToken"}, !.options = CookieOptions]

\* res.status(200).json(new ApiResponse(200, data, message))
OkResp(message) == [NoResp EXCEPT !.status = 200, !.message = message]

\* ----------------------------------------------------------------- requests
\* What a request carries besides the access token: the fields of the body
\* and the refreshToken cookie.
NoCred == [username |-> Absent, email |-> Absent, password |-> Absent,
           cookie |-> NoToken, body |-> NoToken, fullname |-> Absent, avatar |-> Absent]

\* A request as it arrives.  user: the principal it acts for, once known;
\* admitted: it passed the checks of its handler; writes: writes it made to
\* the refreshToken field; clash: another request for the same principal was
\* in flight at some time while this one was.
NewReq(kind, cred, tok) ==
  [kind |-> kind, pc |-> "done", user |-> NoUser, cred |-> cred, tok |-> tok,
   admitted |-> FALSE, writes |-> 0, at |-> NoToken, rt |-> NoToken,
   resp |-> NoResp, clash |-> FALSE]

Slots == 1..Len(reqs)
InFlight(i) == reqs[i].pc # "done"

\* Tokens that reached a caller in a 200 response.
Delivered(kind) ==
  {IF kind = "access" THEN reqs[i].resp.bodyAT ELSE reqs[i].resp.bodyRT :
     i \in {j \in Slots : reqs[j].resp.status = 200 /\ reqs[j].resp.bodyRT # NoToken}}

\* Request r passed its checks for principal user and goes on at pc: it
\* overlaps every request for the same principal that is still in flight.
Admit(r, user, pc) ==
  LET others == {i \in Slots : InFlight(i) /\ reqs[i].user = user}
      marked == [i \in Slots |-> IF i \in others THEN [reqs[i] EXCEPT !.clash = TRUE]
                                                ELSE reqs[i]]
  IN  Append(marked, [r EXCEPT !.pc = pc, !.user = user, !.admitted = TRUE,
                               !.clash = others # {}])

\* Request r is answered at once with resp.
Answer(r, resp) == Append(reqs, [r EXCEPT !.pc = "done", !.resp = resp])

\* --------------------------------------------------- videos and comments
VideoIds   == {"v1"}                \* ids of the video documents
CommentIds == {"c1"}                \* ids of the comment documents
NoSuchId   == "id0"                 \* a well-formed id without a document
BadId      == "bad"                 \* a string that is not an ObjectId

\* findById(..) returned null
NoVideo == [owner |-> NoUser, title |-> "", description |-> "", thumbnail |-> "",
            isPublished |-> FALSE, views |-> 0]
NoComment == [owner |-> NoUser, content |-> ""]

InitVideo(v) ==
  [owner |-> "p1", title |-> "t0", description |-> "d0", thumbnail |-> "th0",
   isPublished |-> TRUE, views |-> 0]

InitComment(c) == [owner |-> "p2", content |-> "x0"]

\* -------------------------------------------------------------------- Init
Init ==
  /\ store = [p \in Principals |-> Null]
  /\ reqs = << >>
  /\ now = 0
  /\ serial = 0
  /\ revoked = [p \in Principals |-> FALSE]
  /\ lastIssued = [p \in Principals |-> NoToken]
  /\ deadRT = {}
  /\ profile = [p \in Principals |->
                  [password |-> passwordOf[p], fullname |-> usernameOf[p], email |-> emailOf[p],
                   avatar |-> "avatar0", coverImage |-> "cover0"]]
  /\ videos = [v \in VideoIds |-> InitVideo(v)]
  /\ comments = [c \in CommentIds |-> InitComment(c)]
  /\ creqs = << >>
  /\ users = << >>
  /\ subscriptions = << >>

\* ------------------------------------------------------------------- login
\* User.findOne({ $or: [{ username }, { email }] }): the records it can return.
findOne(username, email) ==
  {p \in Principals : usernameOf[p] = username \/ profile[p].email = email}

\* A login that lets any password through.
loginReject_NoPasswordCheck(username, email, password, user) ==
  IF ~(username # Absent \/ email # Absent)
  THEN ApiError(400, "Username or email required")
  ELSE IF user = NoUser
  THEN ApiError(404, "User not found")
  ELSE NoResp

\* loginUser, steps 2-4: the error the request ends in, NoResp when it goes
\* on; user is the record findOne returned, NoUser when it returned none.
loginReject(username, email, password, user) ==
  IF ~(username # Absent \/ email # Absent)
  THEN ApiError(400, "Username or email required")
  ELSE IF user = NoUser
  THEN ApiError(404, "User not found")
  ELSE IF ~isPasswordCorrect(user, password)
  THEN ApiError(401, "Wrong password")
  ELSE NoResp

\* loginUser, steps 1-4: validation, lookup and password check.
loginUser(username, email, password) ==
  LET r == NewReq("login", [NoCred EXCEPT !.username = username, !.email = email,
                                         !.password = password], NoToken)
      found == findOne(username, email)
  IN
  /\ Len(reqs) < MaxReq
  /\ \E user \in (IF found = {} THEN {NoUser} ELSE found) :
       LET err == loginReject(username, email, password, user) IN
       IF err # NoResp
       THEN /\ reqs' = Answer([r EXCEPT !.user = user], err)
            /\ UNCHANGED revoked
       ELSE /\ reqs' = Admit(r, user, "gen")
            /\ revoked' = [revoked EXCEPT ![user] = FALSE]
  /\ UNCHANGED <<store, now, serial, lastIssued, deadRT>>
  /\ UNCHANGED <<profile, users, contentVars>>

\* A save that never reaches the store.
savedStore_NotExecuted(user, refreshToken) == store

\* A save that sets the field only when it holds no token yet.
savedStore_KeepExisting(user, refreshToken) ==
  IF store[user] = Null THEN [store EXCEPT ![user] = refreshToken] ELSE store

\* A write whose filter is lost: it sets the field of every record.
savedStore_NoFilter(user, refreshToken) == [p \in Principals |-> refreshToken]

\* user.refreshToken = refreshToken; await user.save(...)
savedStore(user, refreshToken) == [store EXCEPT ![user] = refreshToken]

\* generateAccessAndRefreshToken: findById, the two tokens,
\* user.refreshToken = refreshToken and user.save().
generateAccessAndRefreshToken(i) ==
  /\ i \in Slots
  /\ reqs[i].pc = "gen"
  /\ LET user == reqs[i].user IN
     IF user \notin Principals
     THEN /\ reqs' = [reqs EXCEPT ![i].pc = "done",
                                  ![i].resp = ApiError(404, "User not found")]
          /\ UNCHANGED <<store, serial>>
     ELSE /\ LET accessToken  == generateAccessToken(user, now, serial + 1)
                 refreshToken == generateRefreshToken(user, now, serial + 1)
             IN /\ store' = savedStore(user, refreshToken)
                /\ reqs' = [reqs EXCEPT ![i].pc = "respond",
                                        ![i].writes = @ + 1,
                                        ![i].at = accessToken,
                                        ![i].rt = refreshToken]
          /\ serial' = serial + 1
  /\ UNCHANGED <<now, revoked, lastIssued, deadRT>>
  /\ UNCHANGED <<profile, users, contentVars>>

\* loginUser, steps 6-7: read the profile, set both cookies, answer 200.
loginRespond(i) ==
  /\ i \in Slots
  /\ reqs[i].kind = "login"
  /\ reqs[i].pc = "respond"
  /\ reqs' = [reqs EXCEPT ![i].pc = "done",
                          ![i].resp = TokenResp("Login successful", reqs[i].at, reqs[i].rt)]
  /\ lastIssued' = [lastIssued EXCEPT ![reqs[i].user] = reqs[i].rt]
  /\ UNCHANGED <<store, now, serial, revoked, deadRT>>
  /\ UNCHANGED <<profile, users, contentVars>>

\* ----------------------------------------------------------------- refresh
\* A handler that looks at the body first.
incomingRefreshToken_BodyFirst(cookie, body) == IF body # NoToken THEN body ELSE cookie

\* req.cookies?.refreshToken || req.body?.refreshToken
incomingRefreshToken(cookie, body) == IF cookie # NoToken THEN cookie ELSE body

\* A refresh that accepts every verified token of a known principal.
refreshReject_NoCompare(incoming) ==
  IF incoming = NoToken
  THEN ApiError(401, "Unauthorized")
  ELSE IF ~jwtVerify(incoming, "refresh", now)
  THEN ApiError(401, "Invalid refresh token")
  ELSE IF incoming.sub \notin Principals
  THEN ApiError(401, "Invalid refresh token")
  ELSE NoResp

\* A refresh that tells the caller why it failed: the library's message
\* when the token does not verify, another when it is not the stored one.
refreshReject_DistinctMessages(incoming) ==
  IF incoming = NoToken
  THEN ApiError(401, "Unauthorized request")
  ELSE IF ~jwtVerify(incoming, "refresh", now)
  THEN ApiError(401, "invalid signature")
  ELSE IF incoming.sub \notin Principals
  THEN ApiError(401, "Invalid refresh token")
  ELSE IF incoming # store[incoming.sub]
  THEN ApiError(401, "Refresh token expired or used")
  ELSE NoResp

\* A refresh whose jwt.verify is not wrapped in try/catch: the library's
\* error reaches the boundary layer, which answers 500.
refreshReject_Uncaught(incoming) ==
  IF incoming = NoToken
  THEN ApiError(401, "Unauthorized")
  ELSE IF ~jwtVerify(incoming, "refresh", now)
  THEN ApiError(500, "Internal Server Error")
  ELSE IF incoming.sub \notin Principals \/ incoming # store[incoming.sub]
  THEN ApiError(401, "Invalid refresh token")
  ELSE NoResp

\* refreshAccessToken, steps 1-4: the error the request ends in, NoResp when
\* the candidate is the stored token of its subject.
refreshReject(incoming) ==
  IF incoming = NoToken
  THEN ApiError(401, "Unauthorized")
  ELSE IF ~jwtVerify(incoming, "refresh", now)
  THEN ApiError(401, "Invalid refresh token")
  ELSE IF incoming.sub \notin Principals \/ incoming # store[incoming.sub]
  THEN ApiError(401, "Invalid refresh token")
  ELSE NoResp

\* refreshAccessToken, steps 1-4: take the candidate, verify it, findById
\* and the comparison with the stored token.
refreshAccessToken(cookie, body) ==
  LET incoming == incomingRefreshToken(cookie, body)
      r == NewReq("refresh", [NoCred EXCEPT !.cookie = cookie, !.body = body], incoming)
      err == refreshReject(incoming)
  IN
  /\ Len(reqs) < MaxReq
  /\ IF err # NoResp
     THEN reqs' = Answer(r, err)
     ELSE reqs' = Admit(r, incoming.sub, "gen")
  /\ UNCHANGED <<store, now, serial, revoked, lastIssued, deadRT>>
  /\ UNCHANGED <<profile, users, contentVars>>

\* refreshAccessToken, step 6: set both cookies, answer 200.
refreshRespond(i) ==
  /\ i \in Slots
  /\ reqs[i].kind = "refresh"
  /\ reqs[i].pc = "respond"
  /\ reqs' = [reqs EXCEPT ![i].pc = "done",
                          ![i].resp = TokenResp("Token refreshed", reqs[i].at, reqs[i].rt)]
  /\ lastIssued' = [lastIssued EXCEPT ![reqs[i].user] = reqs[i].rt]
  /\ UNCHANGED <<store, now, serial, revoked, deadRT>>
  /\ UNCHANGED <<profile, users, contentVars>>

\* -------------------------------------------------------- protected routes
\* verifyJWT, mounted before every protected handler: verifies the access
\* token; the handler then runs with req.user._id = the token's subject.
verifyJWT(tok) == tok # NoToken /\ jwtVerify(tok, "access", now)

\* The routes of user.routes.js, by the kind of request they make: the ones
\* mounted behind verifyJWT, and the ones mounted without it.
ProtectedRoutes == {"logout", "change-password", "current", "update-account", "avatar",
                    "cover-image", "channel", "history"}
PublicRoutes    == {"register", "login", "refresh"}

\* A router that mounts logoutUser without verifyJWT.
denied_LogoutNotMounted(route, tok) ==
  route \in ProtectedRoutes \ {"logout"} /\ ~verifyJWT(tok)

\* router.route(..).post(verifyJWT, handler): on a protected route verifyJWT
\* runs first and ends the request when the token does not verify.
denied(route, tok) == route \in ProtectedRoutes /\ ~verifyJWT(tok)

\* A logout whose update never reaches the store.
revokedStore_NotExecuted(user) == store

\* User.findByIdAndUpdate(req.user._id, { $set: { refreshToken: null } })
revokedStore(user) == [p \in Principals |-> IF p = user THEN Null ELSE store[p]]

\* logoutUser behind verifyJWT, step 1: the update of the store.
logoutUser(tok) ==
  LET r == NewReq("logout", NoCred, tok)
      user == tok.sub
  IN
  /\ Len(reqs) < MaxReq
  /\ IF denied("logout", tok)
     THEN /\ reqs' = Answer(r, ApiError(401, "Unauthorized request"))
          /\ UNCHANGED <<store, deadRT>>
     ELSE /\ reqs' = Admit([r EXCEPT !.writes = 1], user, "respond")
          /\ store' = revokedStore(user)
          /\ deadRT' = deadRT \cup {t \in Delivered("refresh") : t.sub = user}
  /\ UNCHANGED <<now, serial, revoked, lastIssued>>
  /\ UNCHANGED <<profile, users, contentVars>>

\* logoutUser, step 2: clear both cookies, answer 200.
logoutRespond(i) ==
  /\ i \in Slots
  /\ reqs[i].kind = "logout"
  /\ reqs[i].pc = "respond"
  /\ reqs' = [reqs EXCEPT ![i].pc = "done", ![i].resp = ClearResp("User logged out")]
  /\ revoked' = [p \in Principals |-> IF p = reqs[i].user THEN TRUE ELSE revoked[p]]
  /\ UNCHANGED <<store, now, serial, lastIssued, deadRT>>
  /\ UNCHANGED <<profile, users, contentVars>>

\* getCurrentUser behind verifyJWT: answers 200 with req.user.
getCurrentUser(tok) ==
  LET r == NewReq("current", NoCred, tok) IN
  /\ Len(reqs) < MaxReq
  /\ IF denied("current", tok)
     THEN reqs' = Answer(r, ApiError(401, "Unauthorized request"))
     ELSE reqs' = Answer([r EXCEPT !.user = tok.sub, !.admitted = TRUE],
                         OkResp("Current user fetched successfully"))
  /\ UNCHANGED <<store, now, serial, revoked, lastIssued, deadRT>>
  /\ UNCHANGED <<profile, users, contentVars>>

\* changeCurrentPassword behind verifyJWT, steps 1-3: findById and the
\* comparison of the old password.
changeCurrentPassword(tok, oldPassword, newPassword) ==
  LET r == NewReq("change-password", [NoCred EXCEPT !.password = newPassword], tok) IN
  /\ Len(reqs) < MaxReq
  /\ IF denied("change-password", tok)
     THEN reqs' = Answer(r, ApiError(401, "Unauthorized request"))
     ELSE IF ~isPasswordCorrect(tok.sub, oldPassword)
     THEN reqs' = Answer([r EXCEPT !.user = tok.sub, !.admitted = TRUE],
                         ApiError(400, "Old password is incorrect"))
     ELSE reqs' = Admit(r, tok.sub, "save")
  /\ UNCHANGED <<store, now, serial, revoked, lastIssued, deadRT, profile, users, contentVars>>

\* A password change that also ends the session of the principal.
passwordStore_Revokes(user) == [p \in Principals |-> IF p = user THEN Null ELSE store[p]]

\* user.password = newPassword; await user.save({ validateBeforeSave: false }):
\* password is the only modified path, the refreshToken field is not written.
passwordStore(user) == store

\* changeCurrentPassword, steps 4-6: user.password = newPassword,
\* user.save() (which writes the modified field only), answer 200.
changePasswordSave(i) ==
  /\ i \in Slots
  /\ reqs[i].kind = "change-password"
  /\ reqs[i].pc = "save"
  /\ profile' = [profile EXCEPT ![reqs[i].user].password = reqs[i].cred.password]
  /\ store' = passwordStore(reqs[i].user)
  /\ reqs' = [reqs EXCEPT ![i].pc = "done",
                          ![i].resp = OkResp("Password changed successfully")]
  /\ UNCHANGED <<now, serial, revoked, lastIssued, deadRT, users, contentVars>>

\* updateAccountDetails behind verifyJWT: validation, findByIdAndUpdate.
updateAccountDetails(tok, fullname, email) ==
  LET r == NewReq("update-account", NoCred, tok)
      h == [r EXCEPT !.user = tok.sub, !.admitted = TRUE]
  IN
  /\ Len(reqs) < MaxReq
  /\ IF denied("update-account", tok)
     THEN /\ reqs' = Answer(r, ApiError(401, "Unauthorized request"))
          /\ UNCHANGED profile
     ELSE IF fullname = Absent \/ email = Absent
     THEN /\ reqs' = Answer(h, ApiError(400, "All fields are required"))
          /\ UNCHANGED profile
     ELSE /\ reqs' = Answer(h, OkResp("Account details updated successfully"))
          /\ profile' = [profile EXCEPT ![tok.sub].fullname = fullname,
                                        ![tok.sub].email = email]
  /\ UNCHANGED <<store, now, serial, revoked, lastIssued, deadRT, users, contentVars>>

\* updateUserAvatar / updateUserCoverImage behind verifyJWT: the file check,
\* the upload and findByIdAndUpdate of the one field.
updateUserImage(kind, field, missing, message, tok, file) ==
  LET r == NewReq(kind, NoCred, tok)
      h == [r EXCEPT !.user = tok.sub, !.admitted = TRUE]
  IN
  /\ Len(reqs) < MaxReq
  /\ IF denied(kind, tok)
     THEN /\ reqs' = Answer(r, ApiError(401, "Unauthorized request"))
          /\ UNCHANGED profile
     ELSE IF file = Absent
     THEN /\ reqs' = Answer(h, ApiError(400, missing))
          /\ UNCHANGED profile
     ELSE /\ reqs' = Answer(h, OkResp(message))
          /\ profile' = [profile EXCEPT ![tok.sub][field] = file]
  /\ UNCHANGED <<store, now, serial, revoked, lastIssued, deadRT, users, contentVars>>

updateUserAvatar(tok, file) ==
  updateUserImage("avatar", "avatar", "Avatar file missing", "Avatar updated", tok, file)

updateUserCoverImage(tok, file) ==
  updateUserImage("cover-image", "coverImage", "Cover image file missing",
                  "Cover image updated", tok, file)

\* getUserChannelProfile behind verifyJWT: reads the channel of a username.
getUserChannelProfile(tok, username) ==
  LET r == NewReq("channel", NoCred, tok)
      h == [r EXCEPT !.user = tok.sub, !.admitted = TRUE]
  IN
  /\ Len(reqs) < MaxReq
  /\ IF denied("channel", tok)
     THEN reqs' = Answer(r, ApiError(401, "Unauthorized request"))
     ELSE IF username = Absent
     THEN reqs' = Answer(h, ApiError(400, "username is missing"))
     ELSE IF \A p \in Principals : usernameOf[p] # username
     THEN reqs' = Answer(h, ApiError(404, "channel does not exists"))
     ELSE reqs' = Answer(h, OkResp("User channel fetched successfully"))
  /\ UNCHANGED <<store, now, serial, revoked, lastIssued, deadRT, profile, users, contentVars>>

\* getWatchHistory behind verifyJWT: reads the history of req.user.
getWatchHistory(tok) ==
  LET r == NewReq("history", NoCred, tok) IN
  /\ Len(reqs) < MaxReq
  /\ IF denied("history", tok)
     THEN reqs' = Answer(r, ApiError(401, "Unauthorized request"))
     ELSE reqs' = Answer([r EXCEPT !.user = tok.sub, !.admitted = TRUE],
                         OkResp("Watch history fetched successfully"))
  /\ UNCHANGED <<store, now, serial, revoked, lastIssued, deadRT, profile, users, contentVars>>

\* ---------------------------------------------------------------- register
\* username.toLowerCase(), on the usernames a caller presents.
toLowerCase(s) == IF s = "Alice" THEN "alice" ELSE IF s = "Carol" THEN "carol" ELSE s

\* User.findOne({ $or: [{ username }, { email }] }) of registerUser: whether
\* a record has this username or this email, as the request spells them.
existedUser(username, email) ==
  \/ \E p \in Principals : usernameOf[p] = username \/ profile[p].email = email
  \/ \E k \in DOMAIN users : users[k].username = username \/ users[k].email = email

\* res.status(201).json(new ApiResponse(201, createdUser, message))
CreatedResp(message) == [NoResp EXCEPT !.status = 201, !.message = message]

\* registerUser, steps 1-4: the empty-field check, findOne and the avatar
\* check; the uploads follow.
registerUser(fullname, email, username, password, avatar) ==
  LET r == NewReq("register", [NoCred EXCEPT !.username = username, !.email = email,
                                            !.password = password, !.fullname = fullname,
                                            !.avatar = avatar], NoToken)
  IN
  /\ Len(reqs) < MaxReq
  /\ reqs' =
       IF "" \in {fullname, email, username, password}
       THEN Answer(r, ApiError(400, "All fields are required"))
       ELSE IF existedUser(username, email)
       THEN Answer(r, ApiError(409, "User already exists"))
       ELSE IF avatar = Absent
       THEN Answer(r, ApiError(400, "Avatar is required"))
       ELSE Append(reqs, [r EXCEPT !.pc = "create", !.admitted = TRUE])
  /\ UNCHANGED <<store, now, serial, revoked, lastIssued, deadRT, profile, users, contentVars>>

\* registerUser, steps 7-9: User.create with the lower-cased username,
\* findById and the answer 201.  The schema of User is not among these
\* sources: when the stored username or the email is already held by a
\* record, create inserts a second record (no unique index) or fails with a
\* duplicate-key error, which the boundary layer answers with 500.
registerCreate(i) ==
  LET username == toLowerCase(reqs[i].cred.username)
      email == reqs[i].cred.email
  IN
  /\ i \in Slots
  /\ reqs[i].kind = "register"
  /\ reqs[i].pc = "create"
  /\ \/ /\ users' = Append(users, [username |-> username, email |-> email])
        /\ reqs' = [reqs EXCEPT ![i].pc = "done",
                                ![i].resp = CreatedResp("User registered successfully")]
     \/ /\ existedUser(username, email)
        /\ reqs' = [reqs EXCEPT ![i].pc = "done",
                                ![i].resp = ApiError(500, "Internal Server Error")]
        /\ UNCHANGED users
  /\ UNCHANGED <<store, now, serial, revoked, lastIssued, deadRT, profile, contentVars>>

\* Time passes.  The unit of the clock is the lifetime of an access token,
\* and a request is over in a fraction of it: the clock advances between
\* requests.
Tick ==
  /\ now < MaxTime
  /\ \A i \in Slots : ~InFlight(i)
  /\ now' = now + 1
  /\ UNCHANGED <<store, reqs, serial, revoked, lastIssued, deadRT>>
  /\ UNCHANGED <<profile, users, contentVars>>

\* ------------------------------------------------------------------ inputs
\* A well-signed refresh token whose subject has no record.
OrphanToken == generateRefreshToken(NoRecord, 0, 0)

\* What a caller can present as a refresh token: the tokens returned to
\* callers, copies of them with an altered signature, a token of a principal
\* without a record, and nothing.
RefreshInputs ==
  Delivered("refresh") \cup {Forge(t) : t \in Delivered("refresh")}
     \cup {OrphanToken, NoToken}

\* What a caller can present as an access token.
AccessInputs == Delivered("access")

Next ==
  \/ \E p \in Principals, pw \in {"pwA", "pwB"} : loginUser(usernameOf[p], Absent, pw)
  \/ \E i \in Slots : generateAccessAndRefreshToken(i)
  \/ \E i \in Slots : loginRespond(i)
  \/ \E c \in RefreshInputs : refreshAccessToken(c, NoToken)
  \/ \E i \in Slots : refreshRespond(i)
  \/ \E t \in AccessInputs : logoutUser(t)
  \/ \E i \in Slots : logoutRespond(i)
  \/ \E t \in AccessInputs : getCurrentUser(t)
  \/ Tick

Spec == Init /\ [][Next]_vars

\* ---------------------------------------------- logins with every input shape
LoginUsernames == {Absent, "alice", "carol"}
LoginEmails    == {Absent, "b@x", "c@x"}
LoginPasswords == {Absent, "pwA", "pwB"}

NextLogin ==
  \/ \E u \in LoginUsernames, e \in LoginEmails, pw \in LoginPasswords :
       Len(reqs) < MaxLoginReq /\ loginUser(u, e, pw)
  \/ \E i \in Slots : generateAccessAndRefreshToken(i)
  \/ \E i \in Slots : loginRespond(i)

SpecLogin == Init /\ [][NextLogin]_vars

\* --------------------------------- logins and refreshes with every input shape
NextErrors ==
  \/ \E u \in LoginUsernames, pw \in {"pwA", "pwB"} :
       loginUser(u, Absent, pw)
  \/ \E i \in Slots : generateAccessAndRefreshToken(i)
  \/ \E i \in Slots : loginRespond(i)
  \/ \E c \in RefreshInputs : refreshAccessToken(c, NoToken)
  \/ \E i \in Slots : refreshRespond(i)

SpecErrors == Init /\ [][NextErrors]_vars

\* ------------------------- refreshes of a session that was rotated before
\* The state after alice logged in and refreshed once, and bob logged in and
\* out: alice's first token is rotated, her second is the stored one, and
\* bob's stored value is null.
RotatedToken   == generateRefreshToken("p1", 0, 1)
StoredToken    == generateRefreshToken("p1", 0, 2)
LoggedOutToken == generateRefreshToken("p2", 0, 3)

InitRotated ==
  /\ store = [p \in Principals |-> IF p = "p1" THEN StoredToken ELSE Null]
  /\ reqs = << >>
  /\ now = 0
  /\ serial = 3
  /\ revoked = [p \in Principals |-> p = "p2"]
  /\ lastIssued = [p \in Principals |-> IF p = "p1" THEN StoredToken ELSE LoggedOutToken]
  /\ deadRT = {LoggedOutToken}
  /\ profile = [p \in Principals |->
                  [password |-> passwordOf[p], fullname |-> usernameOf[p], email |-> emailOf[p],
                   avatar |-> "avatar0", coverImage |-> "cover0"]]
  /\ videos = [v \in VideoIds |-> InitVideo(v)]
  /\ comments = [c \in CommentIds |-> InitComment(c)]
  /\ creqs = << >>
  /\ users = << >>
  /\ subscriptions = << >>

\* What the cookie and the body of a refresh request can each hold.
Candidates == {NoToken, StoredToken, RotatedToken, LoggedOutToken, Forge(StoredToken)}

NextRefresh ==
  \/ \E cookie \in Candidates, body \in Candidates :
       Len(reqs) < MaxRefreshReq /\ refreshAccessToken(cookie, body)
  \/ \E i \in Slots : generateAccessAndRefreshToken(i)
  \/ \E i \in Slots : refreshRespond(i)

SpecRefresh == InitRotated /\ [][NextRefresh]_vars

\* The same, with a store that answers every read and write: a handler that
\* awaits findById and save, or that has its response ready, goes on.
SpecRefreshFair ==
  /\ InitRotated
  /\ [][NextRefresh]_vars
  /\ WF_vars(\E i \in Slots : generateAccessAndRefreshToken(i))
  /\ WF_vars(\E i \in Slots : refreshRespond(i))

\* ------------------------------------- every route, with every kind of token
\* What a caller can present as an access token: the access tokens returned
\* to callers (which expire as the clock advances), copies of them with an
\* altered signature, and nothing.
RouteTokens ==
  Delivered("access") \cup {Forge(t) : t \in Delivered("access")} \cup {NoToken}

NextRoutes ==
  \/ loginUser("alice", Absent, "pwA")
  \/ \E i \in Slots : generateAccessAndRefreshToken(i)
  \/ \E i \in Slots : loginRespond(i)
  \/ \E t \in RouteTokens : logoutUser(t)
  \/ \E i \in Slots : logoutRespond(i)
  \/ \E t \in RouteTokens : getCurrentUser(t)
  \/ \E t \in RouteTokens : changeCurrentPassword(t, "pwA", "pwN")
  \/ \E i \in Slots : changePasswordSave(i)
  \/ \E t \in RouteTokens : updateAccountDetails(t, "Al", "n@x")
  \/ \E t \in RouteTokens : updateUserAvatar(t, "f1")
  \/ \E t \in RouteTokens : updateUserCoverImage(t, "f1")
  \/ \E t \in RouteTokens : getUserChannelProfile(t, "bob")
  \/ \E t \in RouteTokens : getWatchHistory(t)
  \/ Tick

SpecRoutes == Init /\ [][NextRoutes]_vars

\* ------------------------- the account of a principal with an open session
\* Every handler of user.controller.js, called with the tokens that were
\* returned to callers.
NextAccount ==
  \/ loginUser("alice", Absent, "pwA")
  \/ \E i \in Slots : generateAccessAndRefreshToken(i)
  \/ \E i \in Slots : loginRespond(i)
  \/ \E c \in Delivered("refresh") : refreshAccessToken(c, NoToken)
  \/ \E i \in Slots : refreshRespond(i)
  \/ \E t \in AccessInputs : logoutUser(t)
  \/ \E i \in Slots : logoutRespond(i)
  \/ registerUser("Carol", "c@x", "carol", "pwC", "f1")
  \/ \E i \in Slots : registerCreate(i)
  \/ \E t \in AccessInputs : getCurrentUser(t)
  \/ \E t \in AccessInputs, old \in {"pwA", "pwN"} : changeCurrentPassword(t, old, "pwN")
  \/ \E i \in Slots : changePasswordSave(i)
  \/ \E t \in AccessInputs : updateAccountDetails(t, "Al", "n@x")
  \/ \E t \in AccessInputs : updateUserAvatar(t, "f1")
  \/ \E t \in AccessInputs : updateUserCoverImage(t, "f1")
  \/ \E t \in AccessInputs : getUserChannelProfile(t, "bob")
  \/ \E t \in AccessInputs : getWatchHistory(t)

SpecAccount == Init /\ [][NextAccount]_vars

\* ------------------------------------------------------------ registrations
\* What the body of a registration can hold: a username in either case, one
\* that is new, an empty one; the email of a record, or a new one; with or
\* without the avatar file.
RegisterUsernames == {"", "alice", "Alice", "carol", "Carol"}
RegisterEmails    == {"a@x", "c@x", "d@x"}

NextRegister ==
  \/ \E u \in RegisterUsernames, e \in RegisterEmails, avatar \in {Absent, "f1"} :
       Len(reqs) < MaxRegisterReq /\ registerUser("N", e, u, "pw", avatar)
  \/ \E i \in Slots : registerCreate(i)

SpecRegister == Init /\ [][NextRegister]_vars

\* ------------------------------------------------------ videos and comments
\* The handlers of video.controller.js and of the comment controller run
\* behind verifyJWT: caller is req.user._id.
isValidObjectId(id) == id # BadId

\* Video.findById(id) / Comment.findById(id)
findVideo(id)   == IF id \in VideoIds THEN videos[id] ELSE NoVideo
findComment(id) == IF id \in CommentIds THEN comments[id] ELSE NoComment

NoCResp == [status |-> 0, message |-> ""]
CResp(status, message) == [status |-> status, message |-> message]

\* A request to a content handler as it arrives; video / comment: the
\* document findById returned, with the changes the handler made to it;
\* dirty: the fields it changed.
NoBody == [title |-> Absent, description |-> Absent, file |-> Absent, content |-> Absent]

NewCReq(kind, caller, id, body) ==
  [kind |-> kind, pc |-> "done", caller |-> caller, id |-> id, body |-> body,
   video |-> NoVideo, comment |-> NoComment, dirty |-> {}, resp |-> NoCResp,
   existingSub |-> 0, subscribed |-> Absent]

CSlots == 1..Len(creqs)
CAnswer(r, resp) == Append(creqs, [r EXCEPT !.resp = resp])
CFinish(i, resp) == [creqs EXCEPT ![i].pc = "done", ![i].resp = resp]

\* An update or delete that lets every caller through.
notOwner_NoCheck(doc, caller) == FALSE

\* doc.owner.toString() !== req.user._id.toString()
notOwner(doc, caller) == doc.owner # caller

\* updateVideo up to findById and the owner check; then the new title and
\* description are set on the document in memory, and the thumbnail after
\* its upload.
updateVideo(caller, videoId, title, description, file) ==
  LET r == NewCReq("updateVideo", caller, videoId,
                   [NoBody EXCEPT !.title = title, !.description = description,
                                  !.file = file])
      video == findVideo(videoId)
      v1 == IF title # Absent THEN [video EXCEPT !.title = title] ELSE video
      v2 == IF description # Absent THEN [v1 EXCEPT !.description = description] ELSE v1
      v3 == IF file # Absent THEN [v2 EXCEPT !.thumbnail = file] ELSE v2
      dirty == {f \in {"title", "description", "thumbnail"} : v3[f] # video[f]}
  IN
  /\ Len(creqs) < MaxContentReq
  /\ creqs' =
       IF ~isValidObjectId(videoId) THEN CAnswer(r, CResp(400, "Invalid video id"))
       ELSE IF video = NoVideo THEN CAnswer(r, CResp(404, "Video not found"))
       ELSE IF notOwner(video, caller) THEN CAnswer(r, CResp(403, "Not allowed"))
       ELSE Append(creqs, [r EXCEPT !.pc = "save", !.video = v3, !.dirty = dirty])
  /\ UNCHANGED <<videos, comments, subscriptions, authVars>>

\* video.save(): writes the modified fields of the document; fails when the
\* document is gone.
videoSave(i, message) ==
  LET id == creqs[i].id IN
  /\ creqs[i].pc = "save"
  /\ IF creqs[i].dirty = {}
     THEN /\ creqs' = CFinish(i, CResp(200, message))
          /\ UNCHANGED videos
     ELSE IF videos[id] = NoVideo
     THEN /\ creqs' = CFinish(i, CResp(500, "Internal Server Error"))
          /\ UNCHANGED videos
     ELSE /\ creqs' = CFinish(i, CResp(200, message))
          /\ videos' = [videos EXCEPT ![id] =
                          [f \in DOMAIN @ |-> IF f \in creqs[i].dirty
                                               THEN creqs[i].video[f] ELSE @[f]]]
  /\ UNCHANGED <<comments, subscriptions, authVars>>

\* updateVideo, video.save() and the answer.
updateVideoSave(i) ==
  /\ i \in CSlots
  /\ creqs[i].kind = "updateVideo"
  /\ videoSave(i, "Video updated successfully")

\* deleteVideo up to findById and the owner check.
deleteVideo(caller, videoId) ==
  LET r == NewCReq("deleteVideo", caller, videoId, NoBody)
      video == findVideo(videoId)
  IN
  /\ Len(creqs) < MaxContentReq
  /\ creqs' =
       IF ~isValidObjectId(videoId) THEN CAnswer(r, CResp(500, "Internal Server Error"))
       ELSE IF video = NoVideo THEN CAnswer(r, CResp(404, "Video not found"))
       ELSE IF notOwner(video, caller) THEN CAnswer(r, CResp(403, "Not allowed"))
       ELSE Append(creqs, [r EXCEPT !.pc = "delete", !.video = video])
  /\ UNCHANGED <<videos, comments, subscriptions, authVars>>

\* deleteVideo, Video.findByIdAndDelete(videoId) and the answer.
deleteVideoDelete(i) ==
  /\ i \in CSlots
  /\ creqs[i].kind = "deleteVideo"
  /\ creqs[i].pc = "delete"
  /\ videos' = [videos EXCEPT ![creqs[i].id] = NoVideo]
  /\ creqs' = CFinish(i, CResp(200, "Video deleted successfully"))
  /\ UNCHANGED <<comments, subscriptions, authVars>>

\* togglePublishStatus up to findById; then isPublished is negated on the
\* document in memory.
togglePublishStatus(caller, videoId) ==
  LET r == NewCReq("togglePublishStatus", caller, videoId, NoBody)
      video == findVideo(videoId)
  IN
  /\ Len(creqs) < MaxContentReq
  /\ creqs' =
       IF ~isValidObjectId(videoId) THEN CAnswer(r, CResp(500, "Internal Server Error"))
       ELSE IF video = NoVideo THEN CAnswer(r, CResp(404, "Video not found"))
       ELSE Append(creqs, [r EXCEPT !.pc = "save",
                                    !.video = [video EXCEPT !.isPublished = ~@],
                                    !.dirty = {"isPublished"}])
  /\ UNCHANGED <<videos, comments, subscriptions, authVars>>

\* togglePublishStatus, video.save() and the answer.
togglePublishSave(i) ==
  /\ i \in CSlots
  /\ creqs[i].kind = "togglePublishStatus"
  /\ videoSave(i, "Publish status updated")

\* updateComment up to findById and the owner check; then the content is
\* set on the document in memory.
updateComment(caller, commentId, content) ==
  LET r == NewCReq("updateComment", caller, commentId, [NoBody EXCEPT !.content = content])
      comment == findComment(commentId)
  IN
  /\ Len(creqs) < MaxContentReq
  /\ creqs' =
       IF content = Absent THEN CAnswer(r, CResp(400, "Content required"))
       ELSE IF ~isValidObjectId(commentId) THEN CAnswer(r, CResp(500, "Internal Server Error"))
       ELSE IF comment = NoComment THEN CAnswer(r, CResp(404, "Comment not found"))
       ELSE IF notOwner(comment, caller) THEN CAnswer(r, CResp(403, "Not allowed"))
       ELSE Append(creqs, [r EXCEPT !.pc = "save",
                                    !.comment = [comment EXCEPT !.content = content],
                                    !.dirty = IF content # comment.content
                                              THEN {"content"} ELSE {}])
  /\ UNCHANGED <<videos, comments, subscriptions, authVars>>

\* updateComment, comment.save() and the answer.
updateCommentSave(i) ==
  LET id == creqs[i].id IN
  /\ i \in CSlots
  /\ creqs[i].kind = "updateComment"
  /\ creqs[i].pc = "save"
  /\ IF creqs[i].dirty = {}
     THEN /\ creqs' = CFinish(i, CResp(200, "Comment updated successfully"))
          /\ UNCHANGED comments
     ELSE IF comments[id] = NoComment
     THEN /\ creqs' = CFinish(i, CResp(500, "Internal Server Error"))
          /\ UNCHANGED comments
     ELSE /\ creqs' = CFinish(i, CResp(200, "Comment updated successfully"))
          /\ comments' = [comments EXCEPT ![id].content = creqs[i].comment.content]
  /\ UNCHANGED <<videos, subscriptions, authVars>>

\* deleteComment up to findById and the owner check.
deleteComment(caller, commentId) ==
  LET r == NewCReq("deleteComment", caller, commentId, NoBody)
      comment == findComment(commentId)
  IN
  /\ Len(creqs) < MaxContentReq
  /\ creqs' =
       IF ~isValidObjectId(commentId) THEN CAnswer(r, CResp(500, "Internal Server Error"))
       ELSE IF comment = NoComment THEN CAnswer(r, CResp(404, "Comment not found"))
       ELSE IF notOwner(comment, caller) THEN CAnswer(r, CResp(403, "Not allowed"))
       ELSE Append(creqs, [r EXCEPT !.pc = "delete", !.comment = comment])
  /\ UNCHANGED <<videos, comments, subscriptions, authVars>>

\* deleteComment, Comment.findByIdAndDelete(commentId) and the answer.
deleteCommentDelete(i) ==
  /\ i \in CSlots
  /\ creqs[i].kind = "deleteComment"
  /\ creqs[i].pc = "delete"
  /\ comments' = [comments EXCEPT ![creqs[i].id] = NoComment]
  /\ creqs' = CFinish(i, CResp(200, "Comment deleted successfully"))
  /\ UNCHANGED <<videos, subscriptions, authVars>>

\* ------------------------------------------------- subscriptions and views
\* The ObjectId a query or a create casts a string to: the hex digits of an
\* id are read in either case, and an id prints in lower case.
castObjectId(id) == IF id = "P1" THEN "p1" ELSE IF id = "P2" THEN "p2" ELSE id

\* Subscription.findOne({ channel, subscriber }): the id of the first
\* document of the pair, 0 when there is none.
findSubscription(channel, subscriber) ==
  LET found == {k \in DOMAIN subscriptions :
                  /\ ~subscriptions[k].deleted
                  /\ subscriptions[k].channel = castObjectId(channel)
                  /\ subscriptions[k].subscriber = subscriber}
  IN  IF found = {} THEN 0 ELSE CHOOSE k \in found : \A m \in found : k <= m

\* toggleSubscription up to findOne: the two checks of channelId, then the
\* lookup of the subscription of the caller to the channel.
toggleSubscription(caller, channelId) ==
  LET r == NewCReq("toggleSubscription", caller, channelId, NoBody)
      existingSub == findSubscription(channelId, caller)
  IN
  /\ Len(creqs) < MaxViewerReq
  /\ creqs' =
       IF ~isValidObjectId(channelId) THEN CAnswer(r, CResp(400, "Invalid channel id"))
       ELSE IF channelId = caller
       THEN CAnswer(r, CResp(400, "You cannot subscribe to yourself"))
       ELSE Append(creqs, [r EXCEPT !.pc = IF existingSub # 0 THEN "delete" ELSE "create",
                                    !.existingSub = existingSub])
  /\ UNCHANGED <<videos, comments, subscriptions, authVars>>

\* toggleSubscription, Subscription.findByIdAndDelete(existingSub._id) and
\* the answer; deleting a document that is gone is no error.
toggleDelete(i) ==
  /\ i \in CSlots
  /\ creqs[i].kind = "toggleSubscription"
  /\ creqs[i].pc = "delete"
  /\ subscriptions' = [subscriptions EXCEPT ![creqs[i].existingSub].deleted = TRUE]
  /\ creqs' = [creqs EXCEPT ![i].pc = "done", ![i].subscribed = FALSE,
                            ![i].resp = CResp(200, "Unsubscribed successfully")]
  /\ UNCHANGED <<videos, comments, authVars>>

\* toggleSubscription, Subscription.create({ channel, subscriber }) and the
\* answer.  The schema of Subscription is not among these sources: when a
\* document of the pair exists, create inserts a second one (no unique
\* index) or fails with a duplicate-key error, answered with 500.
toggleCreate(i) ==
  /\ i \in CSlots
  /\ creqs[i].kind = "toggleSubscription"
  /\ creqs[i].pc = "create"
  /\ \/ /\ subscriptions' = Append(subscriptions,
                                    [channel |-> castObjectId(creqs[i].id),
                                     subscriber |-> creqs[i].caller, deleted |-> FALSE])
        /\ creqs' = [creqs EXCEPT ![i].pc = "done", ![i].subscribed = TRUE,
                                  ![i].resp = CResp(200, "Subscribed successfully")]
     \/ /\ findSubscription(creqs[i].id, creqs[i].caller) # 0
        /\ creqs' = CFinish(i, CResp(500, "Internal Server Error"))
        /\ UNCHANGED subscriptions
  /\ UNCHANGED <<videos, comments, authVars>>

\* getVideoById up to findById; then views is incremented on the document
\* in memory.
getVideoById(caller, videoId) ==
  LET r == NewCReq("getVideoById", caller, videoId, NoBody)
      video == findVideo(videoId)
  IN
  /\ Len(creqs) < MaxViewerReq
  /\ creqs' =
       IF ~isValidObjectId(videoId) THEN CAnswer(r, CResp(400, "Invalid video id"))
       ELSE IF video = NoVideo THEN CAnswer(r, CResp(404, "Video not found"))
       ELSE Append(creqs, [r EXCEPT !.pc = "save",
                                    !.video = [video EXCEPT !.views = @ + 1],
                                    !.dirty = {"views"}])
  /\ UNCHANGED <<videos, comments, subscriptions, authVars>>

\* getVideoById, video.save() and the answer.
getVideoByIdSave(i) ==
  /\ i \in CSlots
  /\ creqs[i].kind = "getVideoById"
  /\ videoSave(i, "Video fetched successfully")

\* The ids a caller can put in the path: the id of a principal in lower and
\* in upper case, a well-formed id without a document, a malformed one.
ChannelIdInputs == Principals \cup {"P1", "P2", NoSuchId, BadId}

VideoIdInputs   == VideoIds \cup {NoSuchId, BadId}
CommentIdInputs == CommentIds \cup {NoSuchId}

NextContent ==
  \/ \E caller \in Principals, id \in VideoIdInputs, title \in {Absent, "t1"} :
       updateVideo(caller, id, title, Absent, Absent)
  \/ \E i \in CSlots : updateVideoSave(i)
  \/ \E caller \in Principals, id \in VideoIdInputs : deleteVideo(caller, id)
  \/ \E i \in CSlots : deleteVideoDelete(i)
  \/ \E caller \in Principals, id \in VideoIdInputs : togglePublishStatus(caller, id)
  \/ \E i \in CSlots : togglePublishSave(i)
  \/ \E caller \in Principals, id \in CommentIdInputs, content \in {Absent, "x1"} :
       updateComment(caller, id, content)
  \/ \E i \in CSlots : updateCommentSave(i)
  \/ \E caller \in Principals, id \in CommentIdInputs : deleteComment(caller, id)
  \/ \E i \in CSlots : deleteCommentDelete(i)

SpecContent == Init /\ [][NextContent]_vars

NextViewer ==
  \/ \E caller \in Principals, id \in ChannelIdInputs : toggleSubscription(caller, id)
  \/ \E i \in CSlots : toggleDelete(i)
  \/ \E i \in CSlots : toggleCreate(i)
  \/ \E caller \in Principals, id \in VideoIdInputs : getVideoById(caller, id)
  \/ \E i \in CSlots : getVideoByIdSave(i)

SpecViewer == Init /\ [][NextViewer]_vars

\* ================================================================== claims
Status(i)  == reqs[i].resp.status
Arrives(i) == i \in DOMAIN reqs' /\ i \notin DOMAIN reqs
Is(i, kind) == reqs[i].kind = kind

\* C1: two refresh calls that present the same token R1, both started while
\* R1 was the stored token of its principal, end in exactly one 200 and one
\* 401.
C1_ExactlyOneRefreshWins ==
  \A i \in Slots, j \in Slots :
    ( /\ i < j
      /\ Is(i, "refresh") /\ Is(j, "refresh")
      /\ reqs[i].tok = reqs[j].tok
      /\ reqs[i].admitted /\ reqs[j].admitted
      /\ ~InFlight(i) /\ ~InFlight(j) )
    => \/ Status(i) = 200 /\ Status(j) = 401
       \/ Status(i) = 401 /\ Status(j) = 200

\* C2: a refresh is accepted only at an instant at which its candidate is
\* the stored token of the candidate's subject, never while the stored
\* value is null, and only an accepted refresh answers 200.
C2_OnlyStoredTokenAccepted ==
  [][ \A i \in DOMAIN reqs' :
        reqs'[i].kind = "refresh" =>
          /\ (Arrives(i) /\ reqs'[i].admitted) =>
                /\ reqs'[i].user \in Principals
                /\ reqs'[i].user = reqs'[i].tok.sub
                /\ store[reqs'[i].user] = reqs'[i].tok
                /\ store[reqs'[i].user] # Null
          /\ (Arrives(i) /\ reqs'[i].tok.sub \in Principals
                /\ store[reqs'[i].tok.sub] # reqs'[i].tok) => ~reqs'[i].admitted
          /\ reqs'[i].resp.status = 200 => reqs'[i].admitted ]_vars

\* A well-signed, unexpired refresh token of a principal whose stored value
\* is null was rejected.
C2_Witness ==
  \E i \in Slots :
    /\ Is(i, "refresh") /\ Status(i) = 401 /\ ~reqs[i].admitted
    /\ reqs[i].tok.signed /\ reqs[i].tok.kind = "refresh" /\ now < reqs[i].tok.exp
    /\ reqs[i].tok.sub \in Principals
    /\ store[reqs[i].tok.sub] = Null

C4_RevokedTokenRejected ==
  \A p \in Principals :
    (revoked[p] /\ lastIssued[p] # NoToken) => store[p] # lastIssued[p]

\* C5: a login with a missing credential field is answered 400, else one
\* whose username and email match no principal is answered 404, else one
\* whose password does not verify is answered 401.
C5_LoginErrorOrder ==
  \A i \in Slots :
    Is(i, "login") =>
      LET c == reqs[i].cred
          missing == (c.username = Absent /\ c.email = Absent) \/ c.password = Absent
          found == findOne(c.username, c.email)
      IN /\ missing => Status(i) = 400
         /\ (~missing /\ found = {}) => Status(i) = 404
         /\ (~missing /\ reqs[i].user \in found
               /\ ~isPasswordCorrect(reqs[i].user, c.password)) => Status(i) = 401

\* C6: a refresh with no token, a badly signed token, an expired token, a
\* token whose subject has no record, or a token that is not the stored
\* token of its subject (also when the stored value is null) is answered
\* 401 at once, sets no cookie and writes nothing.
C6_RefreshRejects401 ==
  [][ \A i \in DOMAIN reqs' :
        (Arrives(i) /\ reqs'[i].kind = "refresh") =>
          LET t == reqs'[i].tok IN
          ( \/ t = NoToken
            \/ ~t.signed
            \/ t.kind # "refresh"
            \/ now >= t.exp
            \/ t.sub \notin Principals
            \/ store[t.sub] # t ) =>
              /\ reqs'[i].resp.status = 401
              /\ reqs'[i].pc = "done"
              /\ reqs'[i].resp.cookieRT = NoToken /\ reqs'[i].resp.cookieAT = NoToken
              /\ reqs'[i].resp.bodyRT = NoToken /\ reqs'[i].resp.bodyAT = NoToken
              /\ store' = store ]_vars

\* A copy of the stored token with an altered signature and a token of a
\* principal without a record were each answered 401.
C6_Witness ==
  /\ \E i \in Slots : /\ Is(i, "refresh") /\ Status(i) = 401
                       /\ reqs[i].tok # NoToken /\ ~reqs[i].tok.signed
                       /\ reqs[i].tok.sub \in Principals
                       /\ Forge(store[reqs[i].tok.sub]) = reqs[i].tok
  /\ \E i \in Slots : Is(i, "refresh") /\ Status(i) = 401 /\ reqs[i].tok = OrphanToken

\* C7: a login answered 200 returns an access token and a refresh token
\* whose subject is the principal that the lookup returned and whose
\* password the request verified.
C7_LoginTokenSubject ==
  \A i \in Slots :
    (Is(i, "login") /\ Status(i) = 200) =>
      LET c == reqs[i].cred
          user == reqs[i].user
      IN /\ user \in findOne(c.username, c.email)
         /\ isPasswordCorrect(user, c.password)
         /\ reqs[i].resp.bodyAT.sub = user /\ reqs[i].resp.bodyAT.kind = "access"
         /\ reqs[i].resp.bodyAT.signed
         /\ reqs[i].resp.bodyRT.sub = user /\ reqs[i].resp.bodyRT.kind = "refresh"
         /\ reqs[i].resp.cookieAT = reqs[i].resp.bodyAT
         /\ reqs[i].resp.cookieRT = reqs[i].resp.bodyRT

\* A login by alice's username and bob's email with bob's password returned
\* bob's tokens.
C7_Witness ==
  \E i \in Slots :
    /\ Is(i, "login") /\ Status(i) = 200
    /\ reqs[i].cred.username = "alice" /\ reqs[i].cred.email = "b@x"
    /\ reqs[i].user = "p2" /\ reqs[i].resp.bodyAT.sub = "p2"

\* C8 as stated: at the instant a login of P returns 200, if no other
\* request for P is in flight, the stored token of P is the refresh token
\* the login returns.
C8_StoredIsReturnedAtReturn ==
  \A i \in Slots :
    ( /\ Is(i, "login") /\ reqs[i].pc = "respond"
      /\ \A j \in Slots \ {i} : ~(InFlight(j) /\ reqs[j].user = reqs[i].user) )
    => store[reqs[i].user] = reqs[i].rt

\* C8 as amended: at the instant a login of P returns 200, if no other
\* request for P has been in flight since the login arrived, the stored
\* token of P is the refresh token the login returns; the login wrote it
\* before, and returns it in the cookie and in the body.
C8_StoredIsReturnedWhenAlone ==
  \A i \in Slots :
    Is(i, "login") =>
      /\ (reqs[i].pc = "respond" /\ ~reqs[i].clash) => store[reqs[i].user] = reqs[i].rt
      /\ Status(i) = 200 =>
            /\ reqs[i].writes = 1
            /\ reqs[i].resp.bodyRT = reqs[i].rt
            /\ reqs[i].resp.cookieRT = reqs[i].rt

\* A login about to return, alone for its principal, whose token replaced
\* an earlier stored token.
C8_Witness ==
  \E i \in Slots :
    /\ Is(i, "login") /\ reqs[i].pc = "respond" /\ ~reqs[i].clash
    /\ store[reqs[i].user] = reqs[i].rt
    /\ \E j \in Slots : j < i /\ Is(j, "login") /\ Status(j) = 200
                         /\ reqs[j].user = reqs[i].user

\* C9: a logout of an authenticated principal P sets the stored token of P
\* to null whatever it was, leaves the other principals' tokens, and then
\* answers 200 with both cookies cleared; the write precedes the answer.
C9_LogoutRevokes ==
  [][ \A i \in DOMAIN reqs' :
        (reqs'[i].kind = "logout" /\ reqs'[i].admitted) =>
          /\ Arrives(i) =>
                /\ store'[reqs'[i].user] = Null
                /\ \A q \in Principals \ {reqs'[i].user} : store'[q] = store[q]
                /\ reqs'[i].resp.status = 0
          /\ reqs'[i].pc = "done" =>
                /\ reqs'[i].resp.status = 200
                /\ reqs'[i].resp.cleared = {"accessToken", "refreshToken"}
                /\ reqs'[i].writes = 1 ]_vars

\* Two logouts of one principal were answered 200: the first found a token
\* in the store, the second found null.
C9_Witness ==
  \E i \in Slots, j \in Slots :
    /\ i < j
    /\ Is(i, "logout") /\ Status(i) = 200
    /\ Is(j, "logout") /\ Status(j) = 200
    /\ reqs[i].user = reqs[j].user
    /\ store[reqs[i].user] = Null

\* C10: a protected request is accepted whenever its access token is well
\* signed and unexpired, also after a logout of its subject; a refresh token
\* that had been returned when a logout of its subject wrote is never the
\* stored token afterwards, and a refresh presenting it is answered 401.
C10_LogoutKeepsAccessTokens ==
  [][ /\ \A t \in deadRT' : store'[t.sub] # t
      /\ \A i \in DOMAIN reqs' :
           Arrives(i) =>
             /\ reqs'[i].kind \in {"current", "logout"} =>
                  (reqs'[i].admitted <=>
                     (reqs'[i].tok.signed /\ reqs'[i].tok.kind = "access"
                        /\ now < reqs'[i].tok.exp))
             /\ reqs'[i].kind = "current" =>
                  reqs'[i].resp.status = (IF reqs'[i].admitted THEN 200 ELSE 401)
             /\ (reqs'[i].kind = "refresh" /\ reqs'[i].tok \in deadRT) =>
                  reqs'[i].resp.status = 401 ]_vars

\* After a logout of P completed, a protected request with the access token
\* P had got before was answered 200, while the refresh token issued with
\* it is dead.
C10_Witness ==
  \E i \in Slots :
    /\ Is(i, "current") /\ Status(i) = 200
    /\ revoked[reqs[i].user]
    /\ \E t \in deadRT : t.n = reqs[i].tok.n /\ t.sub = reqs[i].tok.sub

\* C11: on every protected route the access-token check runs before the
\* handler: a request whose access token is missing, badly signed or expired
\* is answered 401 at once, the handler is not invoked and neither the stored
\* tokens nor the profiles change; a request whose token verifies reaches
\* the handler as the token's subject.  A request to a public route carries
\* no access token and is never answered by the access-token check.
C11_ProtectedRoutesNeedToken ==
  [][ /\ \A i \in DOMAIN reqs' :
           Arrives(i) =>
             LET r == reqs'[i]
                 valid == r.tok.signed /\ r.tok.kind = "access" /\ now < r.tok.exp
             IN /\ r.kind \in ProtectedRoutes \cup PublicRoutes
                /\ (r.kind \in ProtectedRoutes /\ ~valid) =>
                      /\ r.resp.status = 401 /\ r.pc = "done"
                      /\ ~r.admitted /\ r.user = NoUser /\ r.writes = 0
                      /\ r.resp.cookieAT = NoToken /\ r.resp.cookieRT = NoToken
                      /\ r.resp.cleared = {}
                      /\ store' = store /\ profile' = profile
                /\ (r.kind \in ProtectedRoutes /\ valid) =>
                      /\ r.admitted /\ r.user = r.tok.sub
                      /\ r.resp.status # 401
                /\ r.kind \in PublicRoutes =>
                      /\ r.tok.kind # "access"
                      /\ r.resp.message # "Unauthorized request"
      /\ \A i \in Slots :
           (reqs'[i] # reqs[i] /\ reqs[i].kind \in ProtectedRoutes) => reqs[i].admitted ]_vars

\* A profile update with a badly signed copy of an access token and a logout
\* with an expired access token were each answered 401, and the principal's
\* profile and stored token are as the login left them.
C11_Witness ==
  \E i \in Slots, j \in Slots :
    /\ Is(i, "update-account") /\ Status(i) = 401
    /\ ~reqs[i].tok.signed /\ reqs[i].tok.sub \in Principals
    /\ profile[reqs[i].tok.sub].email = emailOf[reqs[i].tok.sub]
    /\ Is(j, "logout") /\ Status(j) = 401
    /\ reqs[j].tok.signed /\ reqs[j].tok.kind = "access" /\ now >= reqs[j].tok.exp
    /\ store[reqs[j].tok.sub] # Null

C13_RejectionsIndistinguishable ==
  \A i \in Slots, j \in Slots :
    ( /\ Is(i, "refresh") /\ Is(j, "refresh")
      /\ ~InFlight(i) /\ ~reqs[i].admitted
      /\ ~InFlight(j) /\ ~reqs[j].admitted
      /\ reqs[i].tok # NoToken /\ ~reqs[i].tok.signed
      /\ reqs[j].tok.signed /\ reqs[j].tok.sub \in Principals )
    => /\ reqs[i].resp = reqs[j].resp
       /\ reqs[i].resp.status = 401

\* A badly signed copy of the stored token and the token rotated before
\* were both rejected.
C13_Witness ==
  \E i \in Slots, j \in Slots :
    /\ Is(i, "refresh") /\ ~reqs[i].admitted /\ reqs[i].tok = Forge(StoredToken)
    /\ Is(j, "refresh") /\ ~reqs[j].admitted /\ reqs[j].tok = RotatedToken
    /\ Status(i) = 401 /\ Status(j) = 401

\* C14: the candidate of a refresh is the refreshToken cookie, and the
\* refreshToken field of the body only when the cookie is absent or empty;
\* with both absent the request is answered 401 and the store is not
\* written; with both present the cookie alone decides whether the request
\* is accepted.
C14_CookieBeforeBody ==
  [][ \A i \in DOMAIN reqs' :
        (Arrives(i) /\ reqs'[i].kind = "refresh") =>
          LET r == reqs'[i]
              cookie == r.cred.cookie
              body == r.cred.body
              stored(t) == /\ t.signed /\ t.kind = "refresh" /\ now < t.exp
                           /\ t.sub \in Principals /\ store[t.sub] = t
          IN /\ cookie # NoToken => (r.tok = cookie /\ (r.admitted <=> stored(cookie)))
             /\ cookie = NoToken => (r.tok = body /\ (r.admitted <=> stored(body)))
             /\ (cookie = NoToken /\ body = NoToken) =>
                   /\ r.resp = ApiError(401, "Unauthorized")
                   /\ r.pc = "done" /\ r.writes = 0
             /\ ~r.admitted => r.resp.status = 401
             /\ store' = store ]_vars

\* A request with the rotated token in the cookie and the stored token in
\* the body was answered 401, and one with the stored token in the body
\* alone was accepted.
C14_Witness ==
  \E i \in Slots, j \in Slots :
    /\ Is(i, "refresh") /\ Status(i) = 401
    /\ reqs[i].cred.cookie = RotatedToken /\ reqs[i].cred.body = StoredToken
    /\ Is(j, "refresh") /\ reqs[j].admitted
    /\ reqs[j].cred.cookie = NoToken /\ reqs[j].cred.body = StoredToken

CArrives(i) == i \in DOMAIN creqs' /\ i \notin DOMAIN creqs
CSteps(i)   == CArrives(i) \/ (i \in DOMAIN creqs /\ creqs'[i] # creqs[i])
OwnerOnly   == {"updateVideo", "deleteVideo", "updateComment", "deleteComment"}

\* The document a request is aimed at, as the store holds it.
Target(r) ==
  IF r.kind \in {"updateComment", "deleteComment"}
  THEN [owner |-> findComment(r.id).owner]
  ELSE [owner |-> findVideo(r.id).owner]

C16_ToggleOwnerOnly ==
  [][ \A i \in DOMAIN creqs' :
        ( /\ CSteps(i)
          /\ creqs'[i].kind = "togglePublishStatus"
          /\ findVideo(creqs'[i].id) # NoVideo
          /\ findVideo(creqs'[i].id).owner # creqs'[i].caller )
        => /\ creqs'[i].pc = "done"
           /\ creqs'[i].resp.status = 403
           /\ videos' = videos ]_vars

\* C17: a logout of P sets the stored token of P to null and changes no
\* other field of P and no other principal; a logout of P that finds the
\* stored value null already leaves the whole store as it is; and each of
\* the two calls is answered 200.
C17_LogoutIdempotent ==
  [][ \A i \in DOMAIN reqs' :
        (reqs'[i].kind = "logout" /\ reqs'[i].admitted) =>
          LET user == reqs'[i].user IN
          /\ Arrives(i) =>
                /\ store'[user] = Null
                /\ \A q \in Principals \ {user} : store'[q] = store[q]
                /\ profile' = profile
                /\ store[user] = Null => store' = store
          /\ (i \in Slots /\ reqs[i].pc = "respond" /\ reqs'[i].pc = "done") =>
                /\ reqs'[i].resp.status = 200
                /\ store' = store /\ profile' = profile ]_vars

\* Two logouts of one principal, one right after the other, were both
\* answered 200; the second found the stored value null.
C17_Witness ==
  \E i \in Slots :
    /\ i + 1 \in Slots
    /\ Is(i, "logout") /\ Status(i) = 200
    /\ Is(i + 1, "logout") /\ Status(i + 1) = 200
    /\ ~reqs[i + 1].clash
    /\ reqs[i].user = reqs[i + 1].user
    /\ store[reqs[i].user] = Null

\* C18: every 200 response of login and of refresh sets the cookies
\* accessToken and refreshToken to the pair issued in that request, HTTP-only,
\* secure and restricted to same-site requests, and every 200 response of
\* logout clears both cookies with the same attributes.
C18_CookiesOnEvery200 ==
  \A i \in Slots :
    Status(i) = 200 =>
      LET resp == reqs[i].resp IN
      /\ Is(i, "login") \/ Is(i, "refresh") =>
            /\ resp.cookieAT = reqs[i].at /\ resp.cookieAT.kind = "access"
            /\ resp.cookieRT = reqs[i].rt /\ resp.cookieRT.kind = "refresh"
            /\ resp.cookieAT.n = resp.cookieRT.n
            /\ resp.options.httpOnly /\ resp.options.secure
            /\ resp.options.sameSite \in {"strict", "lax"}
      /\ Is(i, "logout") =>
            /\ resp.cleared = {"accessToken", "refreshToken"}
            /\ resp.options.httpOnly /\ resp.options.secure
            /\ resp.options.sameSite \in {"strict", "lax"}

\* C19: the write of a refresh is a compare-and-set: it takes effect only
\* if the stored token of P is still the candidate the match check read;
\* otherwise the refresh is answered 401 and the stored value stays.
C19_RefreshWritesByCompareAndSet ==
  [][ \A i \in Slots :
        (Is(i, "refresh") /\ reqs[i].pc = "gen" /\ reqs'[i].pc # "gen") =>
          IF store[reqs[i].user] = reqs[i].tok
          THEN store'[reqs[i].user] = reqs'[i].rt
          ELSE /\ store' = store
               /\ reqs'[i].pc = "done"
               /\ reqs'[i].resp.status = 401 ]_vars

\* C20: when all the refreshes that presented one token R1 of P have
\* completed, and every other request for P had completed before the first
\* of them arrived, each refresh token returned by one of them with 200 is
\* the stored token of P.
C20_NoStaleSuccessor ==
  \A i \in Slots :
    (Is(i, "refresh") /\ Status(i) = 200) =>
      LET group == {j \in Slots : Is(j, "refresh") /\ reqs[j].tok = reqs[i].tok}
          P == reqs[i].user
      IN ( /\ \A j \in group : ~InFlight(j)
           /\ \A k \in Slots \ group :
                reqs[k].user = P => (~reqs[k].clash /\ \A j \in group : k < j) )
         => reqs[i].resp.bodyRT = store[P]

\* C21: the stored refresh token of a principal changes only in the save of
\* a login or of a refresh (to the token that request issued) and in the
\* update of a logout (to null); every step of register, change-password,
\* update-account, avatar, cover-image and of the read endpoints leaves it as
\* it is, and a refresh that presents the stored token after a completed
\* password change of its principal is accepted.
C21_StoredTokenFrame ==
  [][/\ \A p \in Principals :
         store'[p] # store[p] =>
           \E i \in DOMAIN reqs' :
             /\ reqs'[i].user = p
             /\ \/ /\ reqs'[i].kind \in {"login", "refresh"}
                   /\ i \in Slots /\ reqs[i].pc = "gen" /\ reqs'[i].pc = "respond"
                   /\ store'[p] = reqs'[i].rt
                \/ /\ reqs'[i].kind = "logout"
                   /\ Arrives(i) /\ reqs'[i].admitted
                   /\ store'[p] = Null
     /\ \A i \in DOMAIN reqs' :
         (/\ Arrives(i)
          /\ reqs'[i].kind = "refresh"
          /\ reqs'[i].tok # NoToken
          /\ jwtVerify(reqs'[i].tok, "refresh", now)
          /\ reqs'[i].tok.sub \in Principals
          /\ reqs'[i].tok = store[reqs'[i].tok.sub]
          /\ \E j \in Slots : /\ Is(j, "change-password") /\ Status(j) = 200
                               /\ reqs[j].user = reqs'[i].tok.sub)
           => reqs'[i].admitted]_vars

\* A refresh answered 200 for the token of a login, after a password change
\* of the same principal that was over when the refresh arrived.
C21_Witness ==
  \E k \in Slots, j \in Slots, i \in Slots :
    /\ k < j /\ j < i
    /\ Is(k, "login") /\ Status(k) = 200
    /\ Is(j, "change-password") /\ Status(j) = 200 /\ reqs[j].user = reqs[k].user
    /\ ~reqs[j].clash
    /\ Is(i, "refresh") /\ Status(i) = 200 /\ reqs[i].tok = reqs[k].rt
    /\ profile[reqs[k].user].password = "pwN"

\* C22: a request that ends in an error has written nothing and set no
\* cookie: in the step that answers a login with 400, 404 or 401 or a refresh
\* with 401 the stored tokens of all principals stay as they are and no token
\* pair is issued, the request made no write to the refreshToken field
\* before, and its response carries no token, sets no cookie and clears none.
C22_ErrorsWriteNothing ==
  [][\A i \in DOMAIN reqs' :
       (/\ reqs'[i].kind \in {"login", "refresh"}
        /\ Arrives(i) \/ reqs[i].pc # "done"
        /\ reqs'[i].pc = "done"
        /\ reqs'[i].resp.status # 200)
         => /\ reqs'[i].resp.status \in
                 (IF reqs'[i].kind = "login" THEN {400, 404, 401} ELSE {401})
            /\ store' = store
            /\ serial' = serial
            /\ reqs'[i].writes = 0
            /\ reqs'[i].at = NoToken /\ reqs'[i].rt = NoToken
            /\ reqs'[i].resp.cookieAT = NoToken /\ reqs'[i].resp.cookieRT = NoToken
            /\ reqs'[i].resp.bodyAT = NoToken /\ reqs'[i].resp.bodyRT = NoToken
            /\ reqs'[i].resp.cleared = {}
            /\ reqs'[i].resp.options = NoOptions]_vars

\* A login of alice stored a token; a login with a wrong password and a
\* refresh with a forged copy of the token were then answered 401.
C22_Witness ==
  /\ store["p1"] # Null
  /\ \E i \in Slots : Is(i, "login") /\ Status(i) = 401 /\ reqs[i].user = "p1"
  /\ \E i \in Slots : Is(i, "refresh") /\ Status(i) = 401 /\ reqs[i].tok # NoToken

\* C23: a refresh attempt goes through its steps once and in order: it is
\* rejected with 401 by the checks it arrives at, before any write, or it
\* passes them, then makes its one write to the refreshToken field, then
\* answers 200; no step is taken twice, a finished attempt stays as it is,
\* and with a store that answers each read and write every attempt ends with
\* 200 or 401.
C23_RefreshTerminates ==
  /\ [][\A i \in DOMAIN reqs' :
          reqs'[i].kind = "refresh" =>
            IF Arrives(i)
            THEN /\ reqs'[i].writes = 0
                 /\ \/ reqs'[i].pc = "done" /\ reqs'[i].resp.status = 401
                    \/ reqs'[i].pc = "gen" /\ reqs'[i].resp = NoResp
            ELSE \/ /\ reqs'[i].pc = reqs[i].pc
                    /\ reqs'[i].writes = reqs[i].writes
                    /\ reqs'[i].resp = reqs[i].resp
                 \/ /\ reqs[i].pc = "gen" /\ reqs'[i].pc = "respond"
                    /\ reqs[i].writes = 0 /\ reqs'[i].writes = 1
                    /\ reqs'[i].resp = NoResp
                 \/ /\ reqs[i].pc = "respond" /\ reqs'[i].pc = "done"
                    /\ reqs'[i].writes = 1
                    /\ reqs'[i].resp.status = 200]_vars
  /\ \A i \in 1..MaxRefreshReq :
       (i \in Slots) ~> (i \in Slots /\ reqs[i].pc = "done" /\ Status(i) \in {200, 401})

\* One attempt ended with 200 after one write, another with 401 after none.
C23_Witness ==
  \E i \in Slots, j \in Slots :
    /\ Is(i, "refresh") /\ reqs[i].pc = "done" /\ Status(i) = 200 /\ reqs[i].writes = 1
    /\ Is(j, "refresh") /\ reqs[j].pc = "done" /\ Status(j) = 401 /\ reqs[j].writes = 0
    /\ reqs[j].tok # NoToken

\* C24: once a logout of principal p has completed and no login of p has
\* begun since, the stored refresh token of p is null, unless a login that
\* was in flight wrote it: a refresh cannot store a token after the logout.
C24_LogoutStaysNull ==
  \A p \in Principals :
    revoked[p] =>
      \/ store[p] = Null
      \/ \E i \in Slots : Is(i, "login") /\ reqs[i].user = p /\ reqs[i].rt = store[p]

\* C25: a stored refresh token is a refresh token issued with the subject
\* whose record holds it, and a request writes to one record only: a login
\* to the record whose username or email and whose password it presented, a
\* refresh to the record of the subject of its candidate token, a logout to
\* the record of the subject of its access token.
C25_StoredTokenOfItsPrincipal ==
  /\ \A p \in Principals : store[p] = Null
  /\ [][/\ \A p \in Principals :
             store'[p] # Null => store'[p].kind = "refresh" /\ store'[p].sub = p
         /\ \A q \in Principals :
             store'[q] # store[q] =>
               \E i \in DOMAIN reqs' :
                 /\ reqs'[i] # (IF i \in Slots THEN reqs[i] ELSE NewReq("", NoCred, NoToken))
                 /\ reqs'[i].user = q
                 /\ reqs'[i].admitted
                 /\ reqs'[i].kind \in {"login", "refresh", "logout"}
                 /\ reqs'[i].kind = "login" =>
                      /\ \/ reqs'[i].cred.username = usernameOf[q]
                         \/ reqs'[i].cred.email = emailOf[q]
                      /\ reqs'[i].cred.password = passwordOf[q]
                 /\ reqs'[i].kind = "refresh" =>
                      /\ reqs'[i].tok.sub = q
                      /\ reqs'[i].tok \in Delivered("refresh")
                 /\ reqs'[i].kind = "logout" =>
                      reqs'[i].tok.sub = q /\ verifyJWT(reqs'[i].tok)]_vars

\* Both principals hold a stored token, one of them written by a refresh.
C25_Witness ==
  /\ \A p \in Principals : store[p] # Null
  /\ \E i \in Slots : /\ Is(i, "refresh") /\ reqs[i].writes = 1
                       /\ store[reqs[i].user] = reqs[i].rt

\* C26: no two user records have the same stored username or the same
\* email, and a registration with all its fields whose lower-cased username
\* or whose email is held by a record is answered 409.
C26_UniqueUsers ==
  /\ \A k \in DOMAIN users :
       /\ \A p \in Principals :
            users[k].username # usernameOf[p] /\ users[k].email # profile[p].email
       /\ \A m \in DOMAIN users :
            m # k => users[m].username # users[k].username /\ users[m].email # users[k].email
  /\ \A i \in Slots :
       (/\ Is(i, "register")
        /\ "" \notin {reqs[i].cred.fullname, reqs[i].cred.email, reqs[i].cred.username,
                       reqs[i].cred.password}
        /\ \E p \in Principals : \/ usernameOf[p] = toLowerCase(reqs[i].cred.username)
                                  \/ profile[p].email = reqs[i].cred.email)
         => reqs[i].pc = "done" /\ Status(i) = 409

\* C27: there is at most one subscription document per pair of subscriber
\* and channel, and the subscribed flag of a toggleSubscription answered 200
\* says whether a document of its pair exists when the call has finished.
C27_OneSubscriptionPerPair ==
  [][/\ \A k \in DOMAIN subscriptions', m \in DOMAIN subscriptions' :
         (/\ k # m
          /\ ~subscriptions'[k].deleted /\ ~subscriptions'[m].deleted
          /\ subscriptions'[k].subscriber = subscriptions'[m].subscriber)
           => subscriptions'[k].channel # subscriptions'[m].channel
     /\ \A i \in CSlots :
         (/\ creqs[i].kind = "toggleSubscription"
          /\ creqs[i].pc # "done" /\ creqs'[i].pc = "done"
          /\ creqs'[i].resp.status = 200)
           => creqs'[i].subscribed =
                (\E k \in DOMAIN subscriptions' :
                   /\ ~subscriptions'[k].deleted
                   /\ subscriptions'[k].subscriber = creqs[i].caller
                   /\ subscriptions'[k].channel = castObjectId(creqs[i].id))]_vars

\* C28: no subscription document has its subscriber as its channel, and a
\* toggleSubscription whose channelId is the id of the caller is answered 400
\* at once.
C28_NoSelfSubscription ==
  /\ \A k \in DOMAIN subscriptions : subscriptions[k].subscriber # subscriptions[k].channel
  /\ \A i \in CSlots :
       (creqs[i].kind = "toggleSubscription" /\ creqs[i].id = creqs[i].caller)
         => creqs[i].pc = "done" /\ creqs[i].resp.status = 400

\* C29: the stored view count of a video is its initial value plus the
\* number of getVideoById calls on it that were answered 200.
C29_ViewsCountFetches ==
  \A v \in VideoIds :
    videos[v] # NoVideo =>
      videos[v].views = InitVideo(v).views
                        + Cardinality({i \in CSlots : /\ creqs[i].kind = "getVideoById"
                                                     /\ creqs[i].id = v
                                                     /\ creqs[i].resp.status = 200})

====
